---- MODULE Spec2Model ----
(***************************************************************************)
(* bemcp: the retry decorator (async_retry), the reconnect decorator       *)
(* (reconnect_on_connection_error), the MCPClient connection lifecycle and *)
(* the MCPManager registry (bemcp/decorator.py, bemcp/main.py), as a state *)
(* machine.                                                                *)
(*                                                                         *)
(* Every await of the Python code is a step of its own.  The external      *)
(* collaborators (stdio_client / sse_client, ClientSession, the wrapped    *)
(* operation of a generic async_retry) are the environment: each call to   *)
(* one of them either returns or raises, chosen nondeterministically or by *)
(* a script fixed when the call sequence starts.                           *)
(***************************************************************************)
EXTENDS Integers, Sequences, FiniteSets, TLC

\* ------------------------------------------------------------------ bounds
\* Largest max_retries a generic async_retry is instantiated with.
MaxRetriesBound == 3
\* Largest delay (in seconds) a generic async_retry is instantiated with.
MaxDelay == 2
\* Largest number of consecutive failures scripted for initialize().
MaxHandshakeFailures == 3
\* Largest number of failures the environment raises during one call that an
\* MCPManager makes on one of its clients.
MaxFaults == 4

\* --------------------------------------------------------------- constants
\* @async_retry(max_retries=2) on MCPClient.__aenter__
AEnterMaxRetries == 2
\* async_retry(..., delay: float = 1.0)
DefaultDelay == 1

\* The clients of the model.  "standalone" is an MCPClient used directly; the
\* others are the MCPClient objects an MCPManager constructs in add_server.
StandaloneIds == {"standalone"}
ManagedIds == {"m1", "m2"}
ClientIds == StandaloneIds \cup ManagedIds

\* The server names an MCPManager is called with.
Names == {"a", "b"}

\* ------------------------------------------------------------------ values
None == "None"
SessionHandle == "ClientSession"

Ev(ev, arg) == [ev |-> ev, arg |-> arg]

\* An exception object: its class, its message (a sequence of words) and its
\* identity (the position in the log of the call that raised it).
Exc(type, msg, at) == [type |-> type, msg |-> msg, at |-> at]
NoExc == Exc("None", <<>>, 0)

\* A returned value: what produced it, from which argument, at which call.
Val(what, arg, at) == [what |-> what, arg |-> arg, at |-> at]
NoVal == Val("None", "", 0)
Self == Val("self", "", 0)

Return(v) == [kind |-> "return", value |-> v, exc |-> NoExc]
Raise(x) == [kind |-> "raise", value |-> NoVal, exc |-> x]
NoRet == [kind |-> "none", value |-> NoVal, exc |-> NoExc]

Op(name, arg, config) == [name |-> name, arg |-> arg, config |-> config]
NoOp == Op("none", "", {})

Count(log, ev) == Cardinality({i \in 1..Len(log) : log[i].ev = ev})
Positions(log, evs) == {i \in 1..Len(log) : log[i].ev \in evs}
MaxOf(S) == CHOOSE x \in S : \A y \in S : y <= x

\* ------------------------------------------------------------------- state
VARIABLES
    client,  \* MCPClient fields: server_config, session, exit_stack
    world,   \* the environment: the transport and session resources, fault script
    task,    \* the call in flight on the client: pc and the locals of the frames
    hist,    \* what an observer of the current / last call has seen
    mgr      \* MCPManager: clients, _exit_stack, and the manager call in flight

vars == <<client, world, task, hist, mgr>>

\* self._exit_stack: None, or an AsyncExitStack with the resources it entered.
NoStack == [is_none |-> TRUE, callbacks |-> <<>>]
NewStack == [is_none |-> FALSE, callbacks |-> <<>>]

\* No MCPClient object: the fields an unconstructed client is modelled with.
NoClient == [server_config |-> {}, session |-> None, exit_stack |-> NoStack]

\* A call of an MCPManager method: its name and its arguments.
MOp(name, server, arg, config) ==
    [name |-> name, server |-> server, arg |-> arg, config |-> config]

\* The cooperative tasks that call add_server on one manager at the same time.
Tasks == {"t1", "t2"}

\* The add_server frame of a task: its pc, its arguments, the client it
\* constructed, what it returned or raised, and whether it started while
\* another add_server was suspended in enter_async_context.
NoAdd ==
    [pc |-> "start", name |-> "", config |-> {}, cur |-> "none",
     outcome |-> NoRet, overlapped |-> FALSE]

\* MCPManager(): self.clients = {}; self._exit_stack = AsyncExitStack().
\* clients is the dict in insertion order, exit_stack the clients the shared
\* AsyncExitStack has entered; the other fields are the manager call in flight
\* (pc, op, cur, idx, all_tools, exc) and what its caller has seen of it; adds
\* holds the add_server frames of tasks that run concurrently.
NewManager ==
    [clients |-> <<>>, exit_stack |-> <<>>,
     pc |-> "idle", op |-> MOp("none", "", "", {}), cur |-> "none", idx |-> 0,
     all_tools |-> <<>>, exc |-> NoExc,
     log |-> <<>>, outcome |-> NoRet,
     pre |-> [clients |-> <<>>, exit_stack |-> <<>>],
     adds |-> [t \in Tasks |-> NoAdd]]

NoResources == [transport |-> "none", session |-> "none"]

FreshTask ==
    [pc |-> "new", op |-> NoOp, max_retries |-> 0, delay |-> 0, attempt |-> 0,
     last_exception |-> NoExc, e |-> NoExc, exc |-> NoExc, ret |-> NoRet]

FreshHist(c) ==
    [log |-> <<>>, raised |-> <<>>, outcome |-> NoRet, slept |-> 0, script |-> 0,
     pre |-> [client |-> client[c], resources |-> world[c].resources]]

\* A top-level call of operation o starts on client c, entering at pc p; m and
\* d are the max_retries and delay of the async_retry wrapper on its path.
StartTask(c, o, p, m, d) ==
    task' = [task EXCEPT ![c] = [FreshTask EXCEPT !.pc = p, !.op = o,
                                                  !.max_retries = m, !.delay = d]]

Log(c, ev, arg) == [hist EXCEPT ![c].log = Append(@, Ev(ev, arg))]

\* The call in flight ends: its caller observes r.
Finish(c, h, r) ==
    /\ task' = [task EXCEPT ![c].pc = "idle"]
    /\ hist' = [h EXCEPT ![c].outcome = r]

InitAt(p) ==
    /\ client = [c \in ClientIds |-> NoClient]
    /\ mgr = NewManager
    /\ world = [c \in ClientIds |-> [resources |-> NoResources, failures_left |-> 0]]
    /\ task = [c \in ClientIds |-> [FreshTask EXCEPT !.pc = p]]
    /\ hist = [c \in ClientIds |->
                    [log |-> <<>>, raised |-> <<>>, outcome |-> NoRet,
                     slept |-> 0, script |-> 0,
                     pre |-> [client |-> NoClient, resources |-> NoResources]]]

\* No MCPClient object exists yet.
Init == InitAt("new")

\* ------------------------------------------------- async_retry (decorator.py)
\* for attempt in range(max_retries + 1)
RetryRange(max_retries) == 0 .. max_retries

\* Mutant: one retry too many.
RetryAgainInclusive(attempt, max_retries) == attempt <= max_retries

\* Mutant: the last retry is never made.
RetryAgainOffByOne(attempt, max_retries) == attempt < max_retries - 1

\* if attempt < max_retries: ... await asyncio.sleep(delay)
RetryAgain(attempt, max_retries) == attempt < max_retries

\* Mutant: the first failure is kept instead of the last.
LastExceptionKeepsFirst(last_exception, x) ==
    IF last_exception = NoExc THEN x ELSE last_exception

\* last_exception = e
LastExceptionAfter(last_exception, x) == x

\* return await func(*args, **kwargs): the wrapper returns func's result.
RetryOnReturn(t, v) == [t EXCEPT !.pc = "retry_done", !.ret = Return(v)]

\* except Exception as e: remember it, then sleep or fall through to the next
\* iteration of the for loop.
RetryOnRaise(t, x) ==
    [t EXCEPT !.last_exception = LastExceptionAfter(@, x),
              !.pc = IF RetryAgain(t.attempt, t.max_retries)
                     THEN "retry_sleep" ELSE "retry_for",
              !.attempt = IF RetryAgain(t.attempt, t.max_retries) THEN @ ELSE @ + 1]

\* The pc at which the wrapped function starts.
FuncEntry(o) == IF o.name = "wrapped_op" THEN "func" ELSE "aenter"

\* Head of the for loop: the next attempt calls func; past the range the
\* wrapper raises last_exception (or returns None when there is none).
RetryFor(c) ==
    /\ task[c].pc = "retry_for"
    /\ UNCHANGED mgr
    /\ UNCHANGED <<client, world>>
    /\ IF task[c].attempt \in RetryRange(task[c].max_retries)
       THEN /\ task' = [task EXCEPT ![c].pc = FuncEntry(task[c].op)]
            /\ hist' = Log(c, "attempt", "")
       ELSE /\ task' = [task EXCEPT ![c].pc = "retry_done",
                                    ![c].ret = IF task[c].last_exception # NoExc
                                               THEN Raise(task[c].last_exception)
                                               ELSE Return(NoVal)]
            /\ UNCHANGED hist

\* await asyncio.sleep(delay)
RetrySleep(c) ==
    /\ task[c].pc = "retry_sleep"
    /\ UNCHANGED mgr
    /\ task' = [task EXCEPT ![c].pc = "retry_for", ![c].attempt = @ + 1]
    /\ hist' = [Log(c, "sleep", "") EXCEPT ![c].slept = @ + task[c].delay]
    /\ UNCHANGED <<client, world>>

\* Mutant: a failure of the sleep is handled like a failure of func.
OnSleepRaiseRetries(t, x) == [t EXCEPT !.pc = "retry_for", !.attempt = @ + 1]

\* await asyncio.sleep(delay) runs in the except block, outside the try: what
\* it raises leaves the wrapper.
OnSleepRaise(t, x) == [t EXCEPT !.pc = "retry_done", !.ret = Raise(x)]

\* The task is cancelled while it is suspended in await asyncio.sleep(delay):
\* the sleep raises asyncio.CancelledError.
SleepCancelled(c) ==
    /\ task[c].pc = "retry_sleep"
    /\ LET x == Exc("CancelledError", <<>>, Len(hist[c].log)) IN
       /\ task' = [task EXCEPT ![c] = OnSleepRaise(@, x)]
       /\ hist' = [hist EXCEPT ![c].raised = Append(@, x)]
    /\ UNCHANGED <<client, world, mgr>>

\* A generic async_retry(max_retries = m, delay = d)(func) is called; func will
\* fail on its first k invocations and succeed afterwards.
WrappedCall(c, m, d, k) ==
    /\ task[c].pc = "idle"
    /\ UNCHANGED mgr
    /\ StartTask(c, Op("wrapped_op", "", {}), "retry_for", m, d)
    /\ hist' = [hist EXCEPT ![c] = [FreshHist(c) EXCEPT !.script = k]]
    /\ world' = [world EXCEPT ![c].failures_left = k]
    /\ UNCHANGED client

\* await func(*args, **kwargs) for the generic wrapped operation.
Func(c) ==
    /\ task[c].pc = "func"
    /\ UNCHANGED mgr
    /\ UNCHANGED client
    /\ IF world[c].failures_left > 0
       THEN LET x == Exc("OpError", <<"failed">>, Len(hist[c].log)) IN
            /\ world' = [world EXCEPT ![c].failures_left = @ - 1]
            /\ hist' = [hist EXCEPT ![c].raised = Append(@, x)]
            /\ task' = [task EXCEPT ![c] = RetryOnRaise(@, x)]
       ELSE /\ task' = [task EXCEPT ![c] =
                           RetryOnReturn(@, Val("wrapped_op", "", Len(hist[c].log)))]
            /\ UNCHANGED <<world, hist>>

\* The generic wrapper returns to its caller.
WrappedReturn(c) ==
    /\ task[c].pc = "retry_done"
    /\ UNCHANGED mgr
    /\ task[c].op.name = "wrapped_op"
    /\ Finish(c, hist, task[c].ret)
    /\ UNCHANGED <<client, world>>

\* ------------------------------------------------------ MCPClient (main.py)
\* A server_config is modelled by the set of its keys that select a transport.
Configs == SUBSET {"command", "url"}

\* if not ("command" in server_config or "url" in server_config): raise ValueError
ConfigAccepted(cfg) == "command" \in cfg \/ "url" \in cfg

\* if "command" in self.server_config: stdio_client(...) else: sse_client(...)
TransportOf(cfg) == IF "command" \in cfg THEN "stdio_client" ELSE "sse_client"

\* if self.session: / if not self.session:
HasSession(cl) == cl.session # None

\* if self._exit_stack:  in __aexit__ (an AsyncExitStack object is truthy)
HasExitStack(cl) == ~cl.exit_stack.is_none

\* The transport and the session are acquired, handshaked and not released.
Live(res) == res.transport = "open" /\ res.session = "initialized"

\* MCPClient(server_config)
Construct(c, cfg) ==
    /\ task[c].pc = "new"
    /\ UNCHANGED mgr
    /\ task' = [task EXCEPT ![c] =
                   [FreshTask EXCEPT !.op = Op("__init__", "", cfg),
                                     !.pc = IF ConfigAccepted(cfg) THEN "idle" ELSE "new"]]
    /\ hist' = [hist EXCEPT ![c] =
                   [FreshHist(c) EXCEPT !.outcome =
                       IF ConfigAccepted(cfg)
                       THEN Return(Self)
                       ELSE Raise(Exc("ValueError", <<"Server", "config", "must", "contain",
                                                      "command", "or", "url">>, 0))]]
    /\ client' = IF ConfigAccepted(cfg)
                 THEN [client EXCEPT ![c] = [server_config |-> cfg, session |-> None,
                                             exit_stack |-> NoStack]]
                 ELSE client
    /\ UNCHANGED world

\* The async_retry wrapper of __aenter__ is entered: last_exception = None, and
\* the server will fail the next k handshakes.
EnterRetry(t, m, d) ==
    [t EXCEPT !.pc = "retry_for", !.max_retries = m, !.delay = d, !.attempt = 0,
              !.last_exception = NoExc]

\* await client.connect()
Connect(c, k) ==
    /\ task[c].pc = "idle"
    /\ UNCHANGED mgr
    /\ StartTask(c, Op("connect", "", {}), "retry_for", AEnterMaxRetries, DefaultDelay)
    /\ hist' = [hist EXCEPT ![c] = [FreshHist(c) EXCEPT !.script = k]]
    /\ world' = [world EXCEPT ![c].failures_left = k]
    /\ UNCHANGED client

\* await client.disconnect()
Disconnect(c) ==
    /\ task[c].pc = "idle"
    /\ UNCHANGED mgr
    /\ StartTask(c, Op("disconnect", "", {}), "aexit", 0, 0)
    /\ hist' = [hist EXCEPT ![c] = FreshHist(c)]
    /\ UNCHANGED <<client, world>>

\* __aenter__: if self.session: return self; self._exit_stack = AsyncExitStack()
AEnter(c) ==
    /\ task[c].pc = "aenter"
    /\ UNCHANGED mgr
    /\ UNCHANGED <<world, hist>>
    /\ IF HasSession(client[c])
       THEN /\ task' = [task EXCEPT ![c] = RetryOnReturn(@, Self)]
            /\ UNCHANGED client
       ELSE /\ task' = [task EXCEPT ![c].pc = "transport", ![c].exc = NoExc]
            /\ client' = [client EXCEPT ![c].exit_stack = NewStack]

\* An awaited step of __aenter__'s try block raised x: control is in the except block.
AEnterRaise(c, h, x) ==
    /\ task' = [task EXCEPT ![c].pc = "aenter_except", ![c].exc = x]
    /\ hist' = [h EXCEPT ![c].raised = Append(@, x)]

\* transport = await self._exit_stack.enter_async_context(stdio_client(...) / sse_client(...))
Transport(c, ok) ==
    /\ task[c].pc = "transport"
    /\ UNCHANGED mgr
    /\ LET h == Log(c, "enter", TransportOf(client[c].server_config)) IN
       IF ok
       THEN /\ client' = [client EXCEPT ![c].exit_stack.callbacks = Append(@, "transport")]
            /\ world' = [world EXCEPT ![c].resources.transport = "open"]
            /\ task' = [task EXCEPT ![c].pc = "clientsession"]
            /\ hist' = h
       ELSE /\ AEnterRaise(c, h, Exc("OSError", <<"transport", "failed">>, Len(h[c].log)))
            /\ UNCHANGED <<client, world>>

\* self.session = await self._exit_stack.enter_async_context(ClientSession(...))
ClientSessionEnter(c, ok) ==
    /\ task[c].pc = "clientsession"
    /\ UNCHANGED mgr
    /\ LET h == Log(c, "enter", "ClientSession") IN
       IF ok
       THEN /\ client' = [client EXCEPT ![c].exit_stack.callbacks = Append(@, "session"),
                                        ![c].session = SessionHandle]
            /\ world' = [world EXCEPT ![c].resources.session = "open"]
            /\ task' = [task EXCEPT ![c].pc = "initialize"]
            /\ hist' = h
       ELSE /\ AEnterRaise(c, h, Exc("SessionError", <<"session", "failed">>, Len(h[c].log)))
            /\ UNCHANGED <<client, world>>

\* await self.session.initialize(); return self
Initialize(c) ==
    /\ task[c].pc = "initialize"
    /\ UNCHANGED mgr
    /\ UNCHANGED client
    /\ LET h == Log(c, "initialize", "") IN
       IF world[c].failures_left > 0
       THEN /\ world' = [world EXCEPT ![c].failures_left = @ - 1]
            /\ AEnterRaise(c, h, Exc("HandshakeError", <<"initialize", "failed">>,
                                     Len(h[c].log)))
       ELSE /\ world' = [world EXCEPT ![c].resources.session = "initialized"]
            /\ task' = [task EXCEPT ![c] = RetryOnReturn(@, Self)]
            /\ hist' = h

\* Mutant: aclose() exits the resource entered first.
ReleaseBottom(c, err) ==
    LET cb == client[c].exit_stack.callbacks
        r == cb[1]
        h == Log(c, "exit", r)
        x == Exc("ReleaseError", <<"release", "failed">>, Len(h[c].log))
    IN /\ client' = [client EXCEPT ![c].exit_stack.callbacks = SubSeq(cb, 2, Len(cb))]
       /\ world' = [world EXCEPT ![c].resources[r] = "closed"]
       /\ hist' = IF err THEN [h EXCEPT ![c].raised = Append(@, x)] ELSE h
       /\ task' = IF err THEN [task EXCEPT ![c].exc = x] ELSE task

\* One step of AsyncExitStack.aclose(): the resource entered last is exited.  Its
\* exit may raise (err); the stack goes on, and the last exception raised is the
\* one aclose() raises in the end.  A resource whose exit raised counts as released.
ReleaseTop(c, err) ==
    LET cb == client[c].exit_stack.callbacks
        r == cb[Len(cb)]
        h == Log(c, "exit", r)
        x == Exc("ReleaseError", <<"release", "failed">>, Len(h[c].log))
    IN /\ client' = [client EXCEPT ![c].exit_stack.callbacks = SubSeq(cb, 1, Len(cb) - 1)]
       /\ world' = [world EXCEPT ![c].resources[r] = "closed"]
       /\ hist' = IF err THEN [h EXCEPT ![c].raised = Append(@, x)] ELSE h
       /\ task' = IF err THEN [task EXCEPT ![c].exc = x] ELSE task

\* except Exception: if self._exit_stack: await self._exit_stack.aclose(); raise
AEnterExcept(c) ==
    /\ task[c].pc = "aenter_except"
    /\ UNCHANGED mgr
    /\ IF client[c].exit_stack.callbacks # <<>>
       THEN \E err \in BOOLEAN : ReleaseTop(c, err)
       ELSE /\ task' = [task EXCEPT ![c] = RetryOnRaise(@, task[c].exc)]
            /\ UNCHANGED <<client, world, hist>>

\* __aexit__: if self._exit_stack: await self._exit_stack.aclose() ...
AExit(c) ==
    /\ task[c].pc = "aexit"
    /\ UNCHANGED mgr
    /\ UNCHANGED <<client, world, hist>>
    /\ IF HasExitStack(client[c])
       THEN task' = [task EXCEPT ![c].pc = "aexit_close", ![c].exc = NoExc]
       ELSE task' = [task EXCEPT ![c].pc = "aexit_done", ![c].ret = Return(NoVal)]

\* The fields of the client after aclose() has returned normally in __aexit__:
\* self.session = None; self._exit_stack = None
AfterClose(cl) == [cl EXCEPT !.session = None, !.exit_stack = NoStack]

\* ... await self._exit_stack.aclose(); self.session = None; self._exit_stack = None
\* When aclose() raises, the two assignments are skipped and __aexit__ raises.
AExitClose(c) ==
    /\ task[c].pc = "aexit_close"
    /\ UNCHANGED mgr
    /\ IF client[c].exit_stack.callbacks # <<>>
       THEN \E err \in BOOLEAN : ReleaseTop(c, err)
       ELSE /\ UNCHANGED <<world, hist>>
            /\ IF task[c].exc = NoExc
               THEN /\ client' = [client EXCEPT ![c] = AfterClose(@)]
                    /\ task' = [task EXCEPT ![c].pc = "aexit_done",
                                            ![c].ret = Return(NoVal)]
               ELSE /\ task' = [task EXCEPT ![c].pc = "aexit_done",
                                            ![c].ret = Raise(task[c].exc)]
                    /\ UNCHANGED client

\* connect() returns what the wrapped __aenter__ returned or raised.
ConnectReturn(c) ==
    /\ task[c].pc = "retry_done"
    /\ UNCHANGED mgr
    /\ task[c].op.name = "connect"
    /\ Finish(c, hist, task[c].ret)
    /\ UNCHANGED <<client, world>>

\* disconnect() returns what __aexit__ returned or raised.
DisconnectReturn(c) ==
    /\ task[c].pc = "aexit_done"
    /\ UNCHANGED mgr
    /\ task[c].op.name = "disconnect"
    /\ Finish(c, hist, task[c].ret)
    /\ UNCHANGED <<client, world>>

\* ------------------------ reconnect_on_connection_error (decorator.py)
\* The guarded methods of MCPClient, each with the arguments it is called with.
Calls ==
    {Op("list_tools", "", {}), Op("call_tool", "echo", {}),
     Op("list_resources", "", {}), Op("read_resource", "config://app", {})}
GuardedOps == {o.name : o \in Calls}

\* str(e).lower(), word by word.
LowerWord(w) ==
    CASE w = "Connection" -> "connection"
      [] w = "Closed" -> "closed"
      [] w = "Peer" -> "peer"
      [] w = "Method" -> "method"
      [] OTHER -> w
Lower(msg) == [i \in 1 .. Len(msg) |-> LowerWord(msg[i])]

\* phrase in error_str
Contains(msg, phrase) ==
    \E i \in 1 .. (Len(msg) - Len(phrase) + 1) :
        SubSeq(msg, i, i + Len(phrase) - 1) = phrase

\* except (McpError, BrokenResourceError) as e
GuardWatches(x) == x.type \in {"McpError", "BrokenResourceError"}

\* Mutant: every McpError counts as a lost connection.
IsConnectionErrorAnyMcp(x) == x.type \in {"McpError", "BrokenResourceError"}

\* is_connection_error, as computed in the except block
IsConnectionError(x) ==
    IF x.type = "McpError"
    THEN \/ Contains(Lower(x.msg), <<"connection", "closed">>)
         \/ Contains(Lower(x.msg), <<"peer", "closed", "connection">>)
    ELSE x.type = "BrokenResourceError"

\* The failures a ClientSession request can raise, raised by the call logged at `at`.
SessionErrors(at) ==
    {Exc("McpError", <<"Connection", "closed", "by", "peer">>, at),
     Exc("McpError", <<"Peer", "closed", "connection">>, at),
     Exc("McpError", <<"connection", "was", "closed">>, at),
     Exc("McpError", <<"Method", "not", "found">>, at),
     Exc("BrokenResourceError", <<>>, at),
     Exc("TimeoutError", <<"timed", "out">>, at)}

\* The failures the server of client c answers a request with: a server behind
\* an MCPManager raises one failure of each class (a lost connection, another
\* McpError, a failure the guard does not watch).
SessionErrorsOf(c, at) ==
    IF c \in ManagedIds
    THEN {Exc("McpError", <<"Connection", "closed", "by", "peer">>, at),
          Exc("McpError", <<"Method", "not", "found">>, at),
          Exc("TimeoutError", <<"timed", "out">>, at)}
    ELSE SessionErrors(at)

\* The body of a guarded method, called as the event logged at `at`:
\* if not self.session: raise ConnectionError(...); return await self.session.<op>(...)
\* The request can succeed only on a live session.
MethodOutcomes(c, o, at) ==
    IF ~HasSession(client[c])
    THEN {Raise(Exc("ConnectionError", <<"Not", "connected", "to", "any", "server.">>, at))}
    ELSE {Raise(x) : x \in SessionErrorsOf(c, at)}
         \cup (IF Live(world[c].resources) THEN {Return(Val(o.name, o.arg, at))} ELSE {})

\* Mutant: the arguments are dropped on the second call.
ReinvokedWithoutArgs(o) == [o EXCEPT !.arg = ""]

\* The call func(self, *args, **kwargs) the wrapper makes after reconnecting.
Reinvoked(o) == o

\* Mutant: the failure of the recovery is raised.
ReconnectFailureRaisesLatest(e, reconnect_e) == reconnect_e

\* except Exception as reconnect_e: raise e
ReconnectFailure(e, reconnect_e) == e

\* await client.list_tools() / call_tool(name, args) / list_resources() / read_resource(uri)
Call(c, o) ==
    /\ task[c].pc = "idle"
    /\ UNCHANGED mgr
    /\ StartTask(c, o, "guard_call", 0, 0)
    /\ hist' = [hist EXCEPT ![c] = FreshHist(c)]
    /\ UNCHANGED <<client, world>>

\* try: return await func(self, *args, **kwargs)
\* except (McpError, BrokenResourceError) as e: classify; else: raise
GuardCall(c) ==
    /\ task[c].pc = "guard_call"
    /\ UNCHANGED mgr
    /\ UNCHANGED <<client, world>>
    /\ LET o == task[c].op
           h == Log(c, o.name, o.arg)
       IN \E r \in MethodOutcomes(c, o, Len(h[c].log)) :
            IF r.kind = "return"
            THEN Finish(c, h, r)
            ELSE LET h2 == [h EXCEPT ![c].raised = Append(@, r.exc)] IN
                 IF GuardWatches(r.exc) /\ IsConnectionError(r.exc)
                 THEN /\ task' = [task EXCEPT ![c].pc = "guard_reconnect",
                                              ![c].e = r.exc]
                      /\ hist' = h2
                 ELSE Finish(c, h2, r)

\* await self.disconnect()
GuardReconnect(c) ==
    /\ task[c].pc = "guard_reconnect"
    /\ UNCHANGED mgr
    /\ task' = [task EXCEPT ![c].pc = "aexit"]
    /\ hist' = Log(c, "disconnect", "")
    /\ UNCHANGED <<client, world>>

\* disconnect() is back: if it raised, raise e; else await self.connect()
GuardAfterDisconnect(c, k) ==
    /\ task[c].pc = "aexit_done"
    /\ UNCHANGED mgr
    /\ task[c].op.name \in GuardedOps
    /\ UNCHANGED client
    /\ IF task[c].ret.kind = "raise"
       THEN /\ Finish(c, hist, Raise(ReconnectFailure(task[c].e, task[c].ret.exc)))
            /\ UNCHANGED world
       ELSE /\ task' = [task EXCEPT ![c] = EnterRetry(@, AEnterMaxRetries, DefaultDelay)]
            /\ hist' = [Log(c, "connect", "") EXCEPT ![c].script = k]
            /\ world' = [world EXCEPT ![c].failures_left = k]

\* connect() is back: if it raised, raise e; else call func again
GuardAfterConnect(c) ==
    /\ task[c].pc = "retry_done"
    /\ UNCHANGED mgr
    /\ task[c].op.name \in GuardedOps
    /\ UNCHANGED <<client, world>>
    /\ IF task[c].ret.kind = "raise"
       THEN Finish(c, hist, Raise(ReconnectFailure(task[c].e, task[c].ret.exc)))
       ELSE /\ task' = [task EXCEPT ![c].pc = "guard_retry"]
            /\ UNCHANGED hist

\* return await func(self, *args, **kwargs), inside the reconnect try block
GuardRetry(c) ==
    /\ task[c].pc = "guard_retry"
    /\ UNCHANGED mgr
    /\ UNCHANGED <<client, world>>
    /\ LET o == Reinvoked(task[c].op)
           h == Log(c, o.name, o.arg)
       IN \E r \in MethodOutcomes(c, o, Len(h[c].log)) :
            IF r.kind = "return"
            THEN Finish(c, h, r)
            ELSE Finish(c, [h EXCEPT ![c].raised = Append(@, r.exc)],
                        Raise(ReconnectFailure(task[c].e, r.exc)))

\* ----------------------------------------------------- MCPManager (main.py)
\* name in self.clients
Registered(name) == \E i \in 1 .. Len(mgr.clients) : mgr.clients[i].name = name

\* self.clients[name]
ClientOf(name) ==
    mgr.clients[CHOOSE i \in 1 .. Len(mgr.clients) : mgr.clients[i].name = name].client

\* The MCPClient objects self.clients holds, and those self._exit_stack has entered.
RegisteredIds == {mgr.clients[i].client : i \in 1 .. Len(mgr.clients)}
StackIds == {mgr.exit_stack[i] : i \in 1 .. Len(mgr.exit_stack)}

\* A transport or a session that was acquired and not released.
Held(res) == res.transport = "open" \/ res.session \in {"open", "initialized"}

\* An MCPClient object nothing refers to any more and that holds no resource:
\* its slot is free for the next MCPClient(config).
Garbage(c) ==
    /\ c \in ManagedIds
    /\ c \notin RegisteredIds \cup StackIds
    /\ ~Held(world[c].resources)

\* What an observer sees of a call that starts on a client with fields cl and
\* resources res.
Observed(cl, res) ==
    [log |-> <<>>, raised |-> <<>>, outcome |-> NoRet, slept |-> 0, script |-> 0,
     pre |-> [client |-> cl, resources |-> res]]

\* The clients when a manager call starts or moves on to the next client: the
\* frames and the observations of the finished client calls are dropped, and
\* so are the MCPClient objects nothing refers to.
SettledClient == [c \in ClientIds |-> IF Garbage(c) THEN NoClient ELSE client[c]]
SettledWorld ==
    [c \in ClientIds |->
        IF c \notin ManagedIds THEN world[c]
        ELSE [resources |-> IF Garbage(c) THEN NoResources ELSE world[c].resources,
              failures_left |-> 0]]
SettledTask ==
    [c \in ClientIds |->
        IF c \notin ManagedIds THEN task[c]
        ELSE [FreshTask EXCEPT !.pc = IF Garbage(c) \/ task[c].pc = "new"
                                      THEN "new" ELSE "idle"]]
SettledHist ==
    [c \in ClientIds |->
        IF c \notin ManagedIds THEN hist[c]
        ELSE Observed(SettledClient[c], SettledWorld[c].resources)]

\* A manager method is called.
Called(o) ==
    [mgr EXCEPT !.op = o, !.cur = "none", !.idx = 0, !.all_tools = <<>>,
                !.exc = NoExc, !.log = <<>>, !.outcome = NoRet,
                !.pre = [clients |-> mgr.clients, exit_stack |-> mgr.exit_stack]]

\* The manager method returns or raises r to its caller.
Returned(m, r) == [m EXCEPT !.pc = "idle", !.outcome = r]

\* What the manager has seen of a call it made on a client.
Seen(m, ev, c, kind) ==
    [m EXCEPT !.log = Append(@, [ev |-> ev, client |-> c, kind |-> kind])]

\* No client is touched by this step of the manager beyond being settled.
Settle ==
    /\ client' = SettledClient
    /\ world' = SettledWorld
    /\ task' = SettledTask
    /\ hist' = SettledHist

\* The manager starts operation o on client c, entering at pc p.
StartOn(c, cl, o, p, m, d, k) ==
    /\ client' = [SettledClient EXCEPT ![c] = cl]
    /\ world' = [SettledWorld EXCEPT ![c].failures_left = k]
    /\ task' = [SettledTask EXCEPT ![c] =
                   [FreshTask EXCEPT !.pc = p, !.op = o, !.max_retries = m, !.delay = d]]
    /\ hist' = [SettledHist EXCEPT ![c] =
                   [Observed(cl, SettledWorld[c].resources) EXCEPT !.script = k]]

\* The configurations add_server is called with.
ManagerConfigs == {{"command"}, {}}

\* The slots a new MCPClient object can take.
FreeIds == {c \in ManagedIds : task[c].pc = "new" \/ Garbage(c)}

\* The slot MCPClient(config) takes.
NewId == IF "m1" \in FreeIds THEN "m1" ELSE CHOOSE c \in FreeIds : TRUE

\* Mutant: add_server connects without looking the name up.
AddSkipsAlways(name) == FALSE

\* if name in self.clients: print(...); return
AddSkips(name) == Registered(name)

\* self.clients[name] = client is reached only when enter_async_context returned.
AddRegisters(r) == r.kind = "return"

\* add_server(name, config): the server will fail the next k handshakes.
\* client = MCPClient(config); await self._exit_stack.enter_async_context(client)
AddServer(name, cfg, k) ==
    /\ mgr.pc = "idle"
    /\ LET m == Called(MOp("add_server", name, "", cfg)) IN
       IF AddSkips(name)
       THEN /\ mgr' = Returned(m, Return(NoVal))
            /\ Settle
       ELSE IF ~ConfigAccepted(cfg)
       THEN /\ mgr' = Returned(m, Raise(Exc("ValueError",
                                            <<"Server", "config", "must", "contain",
                                              "command", "or", "url">>, 0)))
            /\ Settle
       ELSE /\ FreeIds # {}
            /\ LET c == NewId IN
               /\ mgr' = [m EXCEPT !.pc = "add_enter", !.cur = c]
               /\ StartOn(c, [server_config |-> cfg, session |-> None,
                              exit_stack |-> NoStack],
                          Op("__aenter__", "", cfg), "retry_for",
                          AEnterMaxRetries, DefaultDelay, k)

\* self.clients[name] = client: the value of an existing key is replaced (the
\* key keeps its place), a new key is appended.
Assigned(clients, name, c) ==
    IF \E i \in 1 .. Len(clients) : clients[i].name = name
    THEN [i \in 1 .. Len(clients) |->
             IF clients[i].name = name THEN [name |-> name, client |-> c]
             ELSE clients[i]]
    ELSE Append(clients, [name |-> name, client |-> c])

\* enter_async_context(client) is back: when __aenter__ raised, add_server
\* raises; else the client's __aexit__ is pushed and self.clients[name] = client.
AddServerEntered(c) ==
    /\ mgr.pc = "add_enter"
    /\ mgr.cur = c
    /\ task[c].pc = "retry_done"
    /\ task[c].op.name = "__aenter__"
    /\ Finish(c, hist, task[c].ret)
    /\ UNCHANGED <<client, world>>
    /\ LET r == task[c].ret
           m == Seen(mgr, "__aenter__", c, r.kind)
       IN IF AddRegisters(r)
          THEN mgr' = Returned([m EXCEPT !.exit_stack = Append(@, c),
                                         !.clients = Assigned(@, mgr.op.server, c)],
                               Return(NoVal))
          ELSE mgr' = Returned(m, r)

\* The dict without the key name.
Without(clients, name) == SelectSeq(clients, LAMBDA e : e.name # name)

\* remove_server(name): if name in self.clients: del self.clients[name]
RemoveServer(name) ==
    /\ mgr.pc = "idle"
    /\ mgr' = Returned([Called(MOp("remove_server", name, "", {}))
                           EXCEPT !.clients = Without(@, name)],
                       Return(NoVal))
    /\ Settle

\* The tool calls a manager is asked to route.
ToolCalls == {Op("call_tool", "echo", {})}

\* raise ValueError(f"Server '{server_name}' not found.")
NotFound == Exc("ValueError", <<"Server", "not", "found.">>, 0)

\* Mutant: every call is routed to the client registered first.
RouteFirst(server_name) == mgr.clients[1].client

\* self.clients[server_name]
Route(server_name) == ClientOf(server_name)

\* call_tool(server_name, tool_name, arguments):
\* if server_name not in self.clients: raise ValueError(...)
\* return await self.clients[server_name].call_tool(tool_name, arguments)
ManagerCallTool(server_name, o) ==
    /\ mgr.pc = "idle"
    /\ LET m == Called(MOp("call_tool", server_name, o.arg, {})) IN
       IF ~Registered(server_name)
       THEN /\ mgr' = Returned(m, Raise(NotFound))
            /\ Settle
       ELSE LET c == Route(server_name) IN
            /\ mgr' = [m EXCEPT !.pc = "call_wait", !.cur = c]
            /\ StartOn(c, client[c], o, "guard_call", 0, 0, 0)

\* The client's call_tool is back: the manager returns or raises what it did.
ManagerCallToolReturn ==
    /\ mgr.pc = "call_wait"
    /\ task[mgr.cur].pc = "idle"
    /\ mgr' = Returned(Seen(mgr, "call_tool", mgr.cur, hist[mgr.cur].outcome.kind),
                       hist[mgr.cur].outcome)
    /\ UNCHANGED <<client, world, task, hist>>

\* get_all_tools(): all_tools = {}; for name, client in self.clients.items(): ...
GetAllTools ==
    /\ mgr.pc = "idle"
    /\ mgr' = [Called(MOp("get_all_tools", "", "", {})) EXCEPT !.pc = "tools_for"]
    /\ Settle

\* The next item of self.clients.items(): tools = await client.list_tools();
\* past the last one, return all_tools.
GetAllToolsFor ==
    /\ mgr.pc = "tools_for"
    /\ IF mgr.idx < Len(mgr.clients)
       THEN LET c == mgr.clients[mgr.idx + 1].client IN
            /\ mgr' = [mgr EXCEPT !.pc = "tools_wait", !.cur = c, !.idx = @ + 1]
            /\ StartOn(c, client[c], Op("list_tools", "", {}), "guard_call", 0, 0, 0)
       ELSE /\ mgr' = Returned(mgr, Return(Val("all_tools", "", 0)))
            /\ UNCHANGED <<client, world, task, hist>>

\* Mutant: a client whose list_tools failed ends get_all_tools with its failure.
ToolsFailurePropagates(x) == FALSE

\* except Exception as e: print(...)
ToolsFailureCaught(x) == x.type # "CancelledError"

\* list_tools is back: all_tools[name] = tools, or the failure is printed.
GetAllToolsNext ==
    /\ mgr.pc = "tools_wait"
    /\ task[mgr.cur].pc = "idle"
    /\ UNCHANGED <<client, world, task, hist>>
    /\ LET r == hist[mgr.cur].outcome
           m == Seen(mgr, "list_tools", mgr.cur, r.kind)
       IN IF r.kind = "return"
          THEN mgr' = [m EXCEPT !.pc = "tools_for",
                                !.all_tools = Append(@, [name |-> mgr.clients[mgr.idx].name,
                                                         tools |-> r.value])]
          ELSE IF ToolsFailureCaught(r.exc)
          THEN mgr' = [m EXCEPT !.pc = "tools_for"]
          ELSE mgr' = Returned(m, r)

\* if self.clients:
CleanupCloses(clients) == clients # <<>>

\* cleanup(): if self.clients: await self._exit_stack.aclose(); self.clients.clear()
Cleanup ==
    /\ mgr.pc = "idle"
    /\ Settle
    /\ LET m == Called(MOp("cleanup", "", "", {})) IN
       IF CleanupCloses(mgr.clients)
       THEN mgr' = [m EXCEPT !.pc = "cleanup_close"]
       ELSE mgr' = Returned(m, Return(NoVal))

\* One step of self._exit_stack.aclose(): the client entered last is exited.
\* Once the stack is empty: when no __aexit__ raised, self.clients.clear() and
\* return; else aclose() raises the last failure and clear() is skipped.
CleanupClose ==
    /\ mgr.pc = "cleanup_close"
    /\ IF mgr.exit_stack # <<>>
       THEN LET c == mgr.exit_stack[Len(mgr.exit_stack)] IN
            /\ mgr' = [mgr EXCEPT !.pc = "cleanup_wait", !.cur = c,
                                  !.exit_stack = SubSeq(@, 1, Len(@) - 1)]
            /\ client' = [SettledClient EXCEPT ![c] = client[c]]
            /\ world' = [SettledWorld EXCEPT ![c] = [world[c] EXCEPT !.failures_left = 0]]
            /\ task' = [SettledTask EXCEPT ![c] =
                           [FreshTask EXCEPT !.pc = "aexit",
                                             !.op = Op("__aexit__", "", {})]]
            /\ hist' = [SettledHist EXCEPT ![c] =
                           Observed(client[c], world[c].resources)]
       ELSE /\ UNCHANGED <<client, world, task, hist>>
            /\ IF mgr.exc = NoExc
               THEN mgr' = Returned([mgr EXCEPT !.clients = <<>>], Return(NoVal))
               ELSE mgr' = Returned(mgr, Raise(mgr.exc))

\* The client's __aexit__ is back; a failure is kept while the stack goes on.
CleanupExited(c) ==
    /\ mgr.pc = "cleanup_wait"
    /\ mgr.cur = c
    /\ task[c].pc = "aexit_done"
    /\ task[c].op.name = "__aexit__"
    /\ Finish(c, hist, task[c].ret)
    /\ UNCHANGED <<client, world>>
    /\ LET r == task[c].ret
           m == Seen(mgr, "__aexit__", c, r.kind)
       IN mgr' = [m EXCEPT !.pc = "cleanup_close",
                           !.exc = IF r.kind = "raise" THEN r.exc ELSE @]

\* The handshake scripts of a server behind an MCPManager: initialize() works,
\* or it fails on every attempt the retry policy of __aenter__ can make.
HandshakeScripts == {0, AEnterMaxRetries + 1}

\* The environment has raised at most MaxFaults failures during the call in
\* flight on client c.
WithinFaults(c) == Len(hist'[c].raised) <= MaxFaults

\* An MCPManager and the clients it creates.
NextManager ==
    \/ \E name \in Names, cfg \in ManagerConfigs, k \in HandshakeScripts :
          AddServer(name, cfg, k)
    \/ \E name \in Names : RemoveServer(name)
    \/ \E name \in Names, o \in ToolCalls : ManagerCallTool(name, o)
    \/ ManagerCallToolReturn
    \/ GetAllTools
    \/ GetAllToolsFor
    \/ GetAllToolsNext
    \/ Cleanup
    \/ CleanupClose
    \/ \E c \in ManagedIds :
        \/ AddServerEntered(c)
        \/ CleanupExited(c)
        \/ RetryFor(c)
        \/ RetrySleep(c)
        \/ AEnter(c)
        \/ \E ok \in BOOLEAN : Transport(c, ok) /\ WithinFaults(c)
        \/ \E ok \in BOOLEAN : ClientSessionEnter(c, ok) /\ WithinFaults(c)
        \/ Initialize(c) /\ WithinFaults(c)
        \/ AEnterExcept(c) /\ WithinFaults(c)
        \/ AExit(c)
        \/ AExitClose(c) /\ WithinFaults(c)
        \/ GuardCall(c) /\ WithinFaults(c)
        \/ GuardReconnect(c)
        \/ \E k \in HandshakeScripts : GuardAfterDisconnect(c, k)
        \/ GuardAfterConnect(c)
        \/ GuardRetry(c) /\ WithinFaults(c)

SpecManager == Init /\ [][NextManager]_vars

\* ------------------------------------- concurrent add_server (main.py)
\* The slots a new MCPClient object can take while other adds are in flight.
UnusedIds == {c \in ManagedIds : task[c].pc = "new"}

\* Another task is suspended in await self._exit_stack.enter_async_context(client).
OtherSuspended(t) == \E u \in Tasks \ {t} : mgr.adds[u].pc = "add_enter"

\* Task t calls add_server(name, config) and runs to its first await: the
\* lookup of the name, MCPClient(config), and the entry of the retry wrapper
\* of __aenter__.  The server will fail the next k handshakes.
TaskAddServer(t, name, cfg, k) ==
    /\ mgr.adds[t].pc = "start"
    /\ LET f == [NoAdd EXCEPT !.name = name, !.config = cfg,
                              !.overlapped = OtherSuspended(t)]
       IN
       IF AddSkips(name)
       THEN /\ mgr' = [mgr EXCEPT !.adds[t] =
                          [f EXCEPT !.pc = "done", !.outcome = Return(NoVal)]]
            /\ UNCHANGED <<client, world, task, hist>>
       ELSE IF ~ConfigAccepted(cfg)
       THEN /\ mgr' = [mgr EXCEPT !.adds[t] =
                          [f EXCEPT !.pc = "done",
                                    !.outcome = Raise(Exc("ValueError",
                                        <<"Server", "config", "must", "contain",
                                          "command", "or", "url">>, 0))]]
            /\ UNCHANGED <<client, world, task, hist>>
       ELSE /\ UnusedIds # {}
            /\ LET c == IF "m1" \in UnusedIds THEN "m1"
                        ELSE CHOOSE x \in UnusedIds : TRUE
                   cl == [server_config |-> cfg, session |-> None,
                          exit_stack |-> NoStack]
               IN
               /\ mgr' = [mgr EXCEPT !.adds[t] = [f EXCEPT !.pc = "add_enter", !.cur = c]]
               /\ client' = [client EXCEPT ![c] = cl]
               /\ world' = [world EXCEPT ![c].failures_left = k]
               /\ task' = [task EXCEPT ![c] =
                              [FreshTask EXCEPT !.pc = "retry_for",
                                                !.op = Op("__aenter__", "", cfg),
                                                !.max_retries = AEnterMaxRetries,
                                                !.delay = DefaultDelay]]
               /\ hist' = [hist EXCEPT ![c] =
                              [Observed(cl, world[c].resources) EXCEPT !.script = k]]

\* Task t is resumed: enter_async_context(client) is back.  When __aenter__
\* raised, add_server raises; else the client's __aexit__ is pushed and
\* self.clients[name] = client.
TaskAddServerEntered(t) ==
    /\ mgr.adds[t].pc = "add_enter"
    /\ LET c == mgr.adds[t].cur
           r == task[c].ret
       IN
       /\ task[c].pc = "retry_done"
       /\ task[c].op.name = "__aenter__"
       /\ Finish(c, hist, r)
       /\ UNCHANGED <<client, world>>
       /\ IF AddRegisters(r)
          THEN mgr' = [mgr EXCEPT !.exit_stack = Append(@, c),
                                  !.clients = Assigned(@, mgr.adds[t].name, c),
                                  !.adds[t].pc = "done",
                                  !.adds[t].outcome = Return(NoVal)]
          ELSE mgr' = [mgr EXCEPT !.adds[t].pc = "done", !.adds[t].outcome = r]

\* Largest number of failures the environment raises during one connect of
\* two concurrent adds.
MaxRaceFaults == 1
WithinRaceFaults(c) == Len(hist'[c].raised) <= MaxRaceFaults

\* Two tasks, each calling add_server once on a new manager; they interleave
\* at the awaits.
NextRace ==
    \/ \E t \in Tasks, name \in Names, cfg \in ManagerConfigs, k \in HandshakeScripts :
          TaskAddServer(t, name, cfg, k)
    \/ \E t \in Tasks : TaskAddServerEntered(t)
    \/ \E c \in ManagedIds :
        \/ RetryFor(c)
        \/ RetrySleep(c)
        \/ AEnter(c)
        \/ \E ok \in BOOLEAN : Transport(c, ok) /\ WithinRaceFaults(c)
        \/ \E ok \in BOOLEAN : ClientSessionEnter(c, ok) /\ WithinRaceFaults(c)
        \/ Initialize(c) /\ WithinRaceFaults(c)
        \/ AEnterExcept(c) /\ WithinRaceFaults(c)

SpecRace == Init /\ [][NextRace]_vars

\* A wrapped function ready to be called.
InitRetry == InitAt("idle")

NextRetry ==
    \E c \in StandaloneIds :
        \/ \E m \in 0 .. MaxRetriesBound, d \in 0 .. MaxDelay,
                 k \in 0 .. MaxRetriesBound + 2 :
              WrappedCall(c, m, d, k)
        \/ RetryFor(c)
        \/ Func(c)
        \/ RetrySleep(c)
        \/ WrappedReturn(c)

SpecRetry == InitRetry /\ [][NextRetry]_vars

\* A wrapped function whose caller may be cancelled during the delay.
NextCancel ==
    \/ NextRetry
    \/ \E c \in StandaloneIds : SleepCancelled(c)

SpecCancel == InitRetry /\ [][NextCancel]_vars

Next ==
    \E c \in StandaloneIds :
        \/ \E cfg \in Configs : Construct(c, cfg)
        \/ \E k \in 0 .. MaxHandshakeFailures : Connect(c, k)
        \/ Disconnect(c)
        \/ RetryFor(c)
        \/ RetrySleep(c)
        \/ AEnter(c)
        \/ \E ok \in BOOLEAN : Transport(c, ok)
        \/ \E ok \in BOOLEAN : ClientSessionEnter(c, ok)
        \/ Initialize(c)
        \/ AEnterExcept(c)
        \/ AExit(c)
        \/ AExitClose(c)
        \/ ConnectReturn(c)
        \/ DisconnectReturn(c)
        \/ \E o \in Calls : Call(c, o)
        \/ GuardCall(c)
        \/ GuardReconnect(c)
        \/ \E k \in 0 .. MaxHandshakeFailures : GuardAfterDisconnect(c, k)
        \/ GuardAfterConnect(c)
        \/ GuardRetry(c)

Spec == Init /\ [][Next]_vars

\* ------------------------------------------------------------ RetryPolicy
Done(c, name) == task[c].pc = "idle" /\ task[c].op.name = name
Attempts(c) == Count(hist[c].log, "attempt")
Sleeps(c) == Count(hist[c].log, "sleep")
LastIn(c, evs) == MaxOf(Positions(hist[c].log, evs))

\* C1: an operation that fails on its first k <= max_retries invocations and
\* succeeds on invocation k+1 is never invoked more than k+1 times nor followed
\* by more than k sleeps; when the wrapper has returned, the operation was
\* invoked exactly k+1 times, k delays (k x delay seconds) were slept, the
\* result is the one invocation k+1 returned, and nothing happened after it.
C1_SuccessAfterKFailures ==
    \A c \in ClientIds :
        (task[c].op.name = "wrapped_op" /\ hist[c].script <= task[c].max_retries) =>
            LET k == hist[c].script IN
            /\ Attempts(c) <= k + 1
            /\ Sleeps(c) <= k
            /\ Done(c, "wrapped_op") =>
                  /\ Attempts(c) = k + 1
                  /\ Sleeps(c) = k
                  /\ hist[c].slept = k * task[c].delay
                  /\ Len(hist[c].raised) = k
                  /\ hist[c].outcome =
                        Return(Val("wrapped_op", "", LastIn(c, {"attempt"})))
                  /\ LastIn(c, {"attempt"}) = Len(hist[c].log)

C1_Witness ==
    \E c \in ClientIds :
        /\ Done(c, "wrapped_op")
        /\ task[c].max_retries = 3 /\ hist[c].script = 3 /\ task[c].delay = 2
        /\ hist[c].outcome.kind = "return"

\* C2: an operation that fails on every invocation is invoked exactly
\* max_retries + 1 times; the wrapper then raises the exception object of the
\* last invocation, and the last failed attempt is not followed by a sleep.
C2_ExhaustedRaisesLast ==
    \A c \in ClientIds :
        (Done(c, "wrapped_op") /\ hist[c].script > task[c].max_retries) =>
            LET m == task[c].max_retries IN
            /\ Attempts(c) = m + 1
            /\ Len(hist[c].raised) = m + 1
            /\ hist[c].outcome = Raise(hist[c].raised[m + 1])
            /\ hist[c].outcome.exc.at = LastIn(c, {"attempt"})
            /\ Sleeps(c) = m
            /\ hist[c].slept = m * task[c].delay
            /\ hist[c].log[Len(hist[c].log)].ev = "attempt"

C2_Witness ==
    \E c \in ClientIds :
        /\ Done(c, "wrapped_op")
        /\ task[c].max_retries = 2 /\ hist[c].script > 2
        /\ hist[c].outcome.kind = "raise"
        /\ Attempts(c) = 3

\* ---------------------------------------------------------- ReconnectGuard
IsPrefix(a, b) == Len(a) <= Len(b) /\ a = SubSeq(b, 1, Len(a))
IsGuardEvent(ev) == ev.ev \in GuardedOps \cup {"disconnect", "connect"}
GuardEvents(c) == SelectSeq(hist[c].log, IsGuardEvent)
Cycle(o) == <<Ev(o.name, o.arg), Ev("disconnect", ""), Ev("connect", ""),
              Ev(o.name, o.arg)>>
RaisedAfter(c, i) == {j \in 1 .. Len(hist[c].raised) : hist[c].raised[j].at > i}

\* The connection-loss failures, as the specification lists them.
LossSignature(x) ==
    \/ x.type = "BrokenResourceError"
    \/ /\ x.type = "McpError"
       /\ x.msg \in {<<"Connection", "closed", "by", "peer">>,
                     <<"Peer", "closed", "connection">>}

Guarded(c) == task[c].op.name \in GuardedOps
\* The first invocation of the guarded operation raised.
FirstFailed(c) ==
    Guarded(c) /\ hist[c].raised # <<>> /\ hist[c].raised[1].at = 1
FirstLost(c) == FirstFailed(c) /\ LossSignature(hist[c].raised[1])
GuardDone(c) == task[c].pc = "idle" /\ Guarded(c)
\* The operation was invoked a second time and that invocation returned.
ReinvocationReturned(c) ==
    /\ Len(GuardEvents(c)) = 4
    /\ RaisedAfter(c, Len(hist[c].log) - 1) = {}

C4_OriginalFailurePropagates ==
    \A c \in ClientIds :
        (GuardDone(c) /\ FirstLost(c) /\ ~ReinvocationReturned(c)) =>
            hist[c].outcome = Raise(hist[c].raised[1])

\* The re-invoked operation raised a failure other than e.
C4_Witness ==
    \E c \in ClientIds :
        /\ GuardDone(c) /\ FirstLost(c)
        /\ Len(GuardEvents(c)) = 4
        /\ Len(hist[c].raised) = 2
        /\ hist[c].raised[2].type # hist[c].raised[1].type
        /\ hist[c].outcome = Raise(hist[c].raised[1])

\* C5: a guarded operation whose first invocation fails with anything but a
\* connection-loss failure is invoked once, triggers no disconnect and no
\* connect, leaves the client's fields and resources as they were, and raises
\* that failure.
C5_OtherFailuresPassThrough ==
    \A c \in ClientIds :
        (FirstFailed(c) /\ ~LossSignature(hist[c].raised[1])) =>
            /\ hist[c].log = <<Ev(task[c].op.name, task[c].op.arg)>>
            /\ Len(hist[c].raised) = 1
            /\ client[c] = hist[c].pre.client
            /\ world[c].resources = hist[c].pre.resources
            /\ task[c].pc = "idle"
            /\ hist[c].outcome = Raise(hist[c].raised[1])

\* A protocol error without the signature, on a connected client.
C5_Witness ==
    \E c \in ClientIds :
        /\ GuardDone(c) /\ FirstFailed(c)
        /\ hist[c].raised[1] = Exc("McpError", <<"connection", "was", "closed">>, 1)
        /\ Live(world[c].resources)

\* The connect sequences started: the acquisitions of a transport.
TransportEnters(c) ==
    Cardinality({i \in 1 .. Len(hist[c].log) :
                    hist[c].log[i] \in {Ev("enter", "stdio_client"),
                                        Ev("enter", "sse_client")}})

Connected(c) == HasSession(client[c]) /\ Live(world[c].resources)
OnlyHandshakeFailed(c) ==
    \A j \in 1 .. Len(hist[c].raised) : hist[c].raised[j].type = "HandshakeError"

\* C7: connect() from Disconnected, with a handshake that fails twice and then
\* succeeds (and nothing else failing): three handshakes, two delays, and
\* connect() returns with the client Connected.
C7_ConnectsOnThirdHandshake ==
    \A c \in ClientIds :
        (Done(c, "connect") /\ ~HasSession(hist[c].pre.client)
            /\ hist[c].script = 2 /\ OnlyHandshakeFailed(c)) =>
            /\ Count(hist[c].log, "initialize") = 3
            /\ Sleeps(c) = 2
            /\ hist[c].outcome = Return(Self)
            /\ Connected(c)

\* C8: when no call is in progress, the session handle is set iff the client
\* holds an unreleased transport and session on which the handshake completed.
C8_SessionIffConnected ==
    \A c \in ClientIds :
        task[c].pc \in {"new", "idle"} =>
            (HasSession(client[c]) <=> Live(world[c].resources))

\* C9: disconnect() returns normally from any state and leaves the client
\* Disconnected with its session handle cleared.
C9_DisconnectAlwaysSucceeds ==
    \A c \in ClientIds :
        Done(c, "disconnect") =>
            /\ hist[c].outcome = Return(NoVal)
            /\ ~HasSession(client[c])
            /\ ~HasExitStack(client[c])

\* C10: construction succeeds iff exactly one of 'command' and 'url' is a key of
\* the configuration; otherwise it raises the configuration error before any
\* connection step.
C10_ExactlyOneTransportKey ==
    \A c \in ClientIds :
        task[c].op.name = "__init__" =>
            /\ hist[c].outcome.kind = "return"
                  <=> Cardinality(task[c].op.config \cap {"command", "url"}) = 1
            /\ hist[c].outcome.kind = "raise" =>
                  /\ hist[c].outcome.exc.type = "ValueError"
                  /\ hist[c].log = <<>>
                  /\ task[c].pc = "new"

\* --------------------------------------------------------------- MCPManager
\* The manager call named name has returned or raised to its caller.
ManagerDone(name) == mgr.pc = "idle" /\ mgr.op.name = name /\ mgr.outcome # NoRet

\* The name was a key of self.clients when the call in flight or just ended started.
PreRegistered(name) ==
    \E i \in 1 .. Len(mgr.pre.clients) : mgr.pre.clients[i].name = name

\* The calls the manager made on its clients during the call.
ManagerCalls(ev) == Cardinality({i \in 1 .. Len(mgr.log) : mgr.log[i].ev = ev})

\* No client was constructed, changed, or made to take a step during the call.
ClientsUntouched ==
    \A c \in ManagedIds :
        /\ hist[c].log = <<>>
        /\ client[c] = hist[c].pre.client
        /\ world[c].resources = hist[c].pre.resources
        /\ task[c].pc \in {"new", "idle"}

\* C11: add_server(name, ...) with a name that is registered returns without
\* connecting (no __aenter__ call, no step on any client), without constructing
\* a client, and with the registry and the shared exit stack as they were; an
\* add_server with a name that is not registered and that returns has entered
\* exactly one client and registered it, so two adds of one name in a row make
\* one connect.
C11_AddRegisteredIsNoOp ==
    /\ (ManagerDone("add_server") /\ PreRegistered(mgr.op.server)) =>
          /\ mgr.outcome = Return(NoVal)
          /\ mgr.log = <<>>
          /\ ClientsUntouched
          /\ mgr.clients = mgr.pre.clients
          /\ mgr.exit_stack = mgr.pre.exit_stack
    /\ (ManagerDone("add_server") /\ ~PreRegistered(mgr.op.server)
            /\ mgr.outcome.kind = "return") =>
          /\ ManagerCalls("__aenter__") = 1
          /\ Count(hist[mgr.cur].log, "attempt") >= 1
          /\ Registered(mgr.op.server)
          /\ Len(mgr.clients) = Len(mgr.pre.clients) + 1

\* add_server was called with a registered name while another name was
\* registered too, and has returned.
C11_Witness ==
    /\ ManagerDone("add_server")
    /\ PreRegistered(mgr.op.server)
    /\ Len(mgr.pre.clients) = 2
    /\ ConfigAccepted(mgr.op.config)

\* The client the add_server just ended constructed is not connected: its
\* configuration was refused, or its connect sequence left no live session.
AddFailed ==
    \/ ~ConfigAccepted(mgr.op.config)
    \/ ~Live(world[mgr.cur].resources)

\* C12: an add_server whose configuration is invalid or whose connect fails
\* raises the failure, leaves the registry as it was and leaves nothing of the
\* failed client on the shared exit stack.
C12_FailedAddLeavesNothing ==
    (ManagerDone("add_server") /\ ~PreRegistered(mgr.op.server) /\ AddFailed) =>
        /\ mgr.outcome.kind = "raise"
        /\ mgr.clients = mgr.pre.clients
        /\ mgr.exit_stack = mgr.pre.exit_stack
        /\ mgr.cur \notin StackIds

\* C13: whenever no manager call is in flight, every name of the registry maps
\* to a Connected client.
C13_RegisteredAreConnected ==
    mgr.pc = "idle" =>
        \A i \in 1 .. Len(mgr.clients) : Connected(mgr.clients[i].client)

\* The client self.clients held under the name when the call started.
PreClientOf(name) ==
    mgr.pre.clients[CHOOSE i \in 1 .. Len(mgr.pre.clients) :
                        mgr.pre.clients[i].name = name].client

\* C14: call_tool(server_name, ...) with a name that is not registered raises
\* the 'server not found' ValueError without a step on any client and without
\* a change of the registry; with a registered name it calls call_tool, with
\* the tool it was given, on the client registered under that name and on no
\* other, once, and returns or raises what that call did.
C14_CallToolRoutes ==
    /\ (ManagerDone("call_tool") /\ ~PreRegistered(mgr.op.server)) =>
          /\ mgr.outcome = Raise(NotFound)
          /\ mgr.log = <<>>
          /\ ClientsUntouched
          /\ mgr.clients = mgr.pre.clients
          /\ mgr.exit_stack = mgr.pre.exit_stack
    /\ (mgr.op.name = "call_tool" /\ PreRegistered(mgr.op.server)) =>
          LET c == PreClientOf(mgr.op.server) IN
          /\ \A d \in ManagedIds \ {c} : hist[d].log = <<>> /\ task[d].pc \in {"new", "idle"}
          /\ hist[c].log # <<>> => hist[c].log[1] = Ev("call_tool", mgr.op.arg)
          /\ mgr.clients = mgr.pre.clients
          /\ ManagerDone("call_tool") =>
                /\ mgr.log = <<[ev |-> "call_tool", client |-> c,
                                kind |-> mgr.outcome.kind]>>
                /\ mgr.outcome = hist[c].outcome
                /\ hist[c].log[1] = Ev("call_tool", mgr.op.arg)

\* call_tool with a name that is not registered, while another one is, has raised.
C14_Witness ==
    /\ ManagerDone("call_tool")
    /\ ~PreRegistered(mgr.op.server)
    /\ Len(mgr.clients) = 1
    /\ Connected(mgr.clients[1].client)
    /\ mgr.outcome = Raise(NotFound)

\* The names get_all_tools returned tools for.
ToolNames == {mgr.all_tools[i].name : i \in 1 .. Len(mgr.all_tools)}

\* C15: get_all_tools calls list_tools once on every registered client, in the
\* order of the registry; it returns, whatever the calls did, a mapping whose
\* keys are the names whose list_tools returned, each with what its client
\* returned.
C15_AllToolsOfThoseThatAnswer ==
    ManagerDone("get_all_tools") =>
        /\ mgr.outcome = Return(Val("all_tools", "", 0))
        /\ mgr.clients = mgr.pre.clients
        /\ Len(mgr.log) = Len(mgr.clients)
        /\ \A i \in 1 .. Len(mgr.log) :
              /\ mgr.log[i].ev = "list_tools"
              /\ mgr.log[i].client = mgr.clients[i].client
        /\ ToolNames = {mgr.clients[i].name : i \in {j \in 1 .. Len(mgr.log) :
                                                      mgr.log[j].kind = "return"}}
        /\ Len(mgr.all_tools) = Cardinality(ToolNames)
        /\ \A i \in 1 .. Len(mgr.all_tools) : mgr.all_tools[i].tools.what = "list_tools"

\* get_all_tools has returned the tools of the second client after the
\* list_tools of the first one raised.
C15_Witness ==
    /\ ManagerDone("get_all_tools")
    /\ Len(mgr.log) = 2
    /\ mgr.log[1].kind = "raise"
    /\ mgr.log[2].kind = "return"
    /\ ToolNames = {mgr.clients[2].name}

\* The clients self.clients held when the call started.
PreRegisteredIds == {mgr.pre.clients[i].client : i \in 1 .. Len(mgr.pre.clients)}

\* C16: cleanup() releases the transport and the session of every registered
\* client and leaves the registry empty; a cleanup() right after it (the
\* registry is empty) makes no call on any client and returns normally.
C16_CleanupEmptiesRegistry ==
    /\ (ManagerDone("cleanup") /\ mgr.pre.clients # <<>>) =>
          /\ \A c \in PreRegisteredIds : ~Held(world[c].resources)
          /\ mgr.clients = <<>>
    /\ (ManagerDone("cleanup") /\ mgr.pre.clients = <<>>) =>
          /\ mgr.outcome = Return(NoVal)
          /\ mgr.log = <<>>
          /\ ClientsUntouched

\* C20: once cleanup() has returned or raised, no client the manager created
\* holds a transport or a session that was not released, whether its name is
\* still registered, was removed, or every name was removed before the cleanup.
C20_NoLeakAfterCleanup ==
    ManagerDone("cleanup") => \A c \in ManagedIds : ~Held(world[c].resources)

\* ------------------------------------------------- connection lifecycle
\* The failure of a connect attempt has reached the async_retry wrapper.
AttemptFailed(c) ==
    /\ task[c].op.name # "wrapped_op"
    /\ task[c].pc \in {"retry_sleep", "retry_for"}
    /\ task[c].last_exception # NoExc

\* C17: when a step of a connect attempt has failed and the failure has reached
\* the retry wrapper, everything the attempt acquired is released, the client's
\* exit stack is empty and the client is Disconnected with no session handle,
\* so that the next attempt acquires its resources afresh.
C17_FailedAttemptLeavesDisconnected ==
    \A c \in ClientIds :
        AttemptFailed(c) =>
            /\ ~Held(world[c].resources)
            /\ client[c].exit_stack.callbacks = <<>>
            /\ ~HasSession(client[c])

\* The acquisitions and the releases a log records.
IsTransportEnter(e) == e.ev = "enter" /\ e.arg \in {"stdio_client", "sse_client"}

\* C18: the session is held only while its transport is held, on every path:
\* the transport is acquired before the session (the session is entered right
\* after its transport, and the exit stack holds the transport below the
\* session) and the session is released before the transport (a transport is
\* exited right after its session was, or after the failed acquisition of one).
C18_SessionInsideTransport ==
    \A c \in ClientIds :
        /\ world[c].resources.session \in {"open", "initialized"} =>
              world[c].resources.transport = "open"
        /\ client[c].exit_stack.callbacks \in
              {<<>>, <<"transport">>, <<"transport", "session">>}
        /\ \A i \in 1 .. Len(hist[c].log) :
              LET e == hist[c].log[i] IN
              /\ e = Ev("enter", "ClientSession") =>
                    i > 1 /\ IsTransportEnter(hist[c].log[i - 1])
              /\ e = Ev("exit", "transport") =>
                    i > 1 /\ hist[c].log[i - 1] \in {Ev("exit", "session"),
                                                     Ev("enter", "ClientSession")}
              /\ (e = Ev("exit", "session") /\ i < Len(hist[c].log)) =>
                    hist[c].log[i + 1] = Ev("exit", "transport")

\* During a cleanup() of the manager a client that was Connected has released
\* its session and still holds its transport.
C18_Witness ==
    \E c \in ManagedIds :
        /\ mgr.op.name = "cleanup"
        /\ mgr.cur = c
        /\ Live(hist[c].pre.resources)
        /\ world[c].resources = [transport |-> "open", session |-> "closed"]

\* The call was cancelled during a delay of the retry wrapper.
Cancelled(c) ==
    \E j \in 1 .. Len(hist[c].raised) : hist[c].raised[j].type = "CancelledError"
Cancellation(c) ==
    hist[c].raised[CHOOSE j \in 1 .. Len(hist[c].raised) :
                       hist[c].raised[j].type = "CancelledError"]

\* C19: when the caller of a retry-wrapped operation is cancelled during the
\* delay between two attempts, the wrapper ends there: the operation is not
\* invoked again, no further delay is slept, and what the wrapper hands to its
\* caller is the cancellation, never a result.
C19_CancelledDelayEndsTheCall ==
    \A c \in ClientIds :
        Cancelled(c) =>
            /\ task[c].pc \in {"retry_done", "idle"}
            /\ Len(hist[c].log) = Cancellation(c).at
            /\ hist[c].log[Len(hist[c].log)].ev = "attempt"
            /\ Attempts(c) <= task[c].max_retries
            /\ task[c].ret = Raise(Cancellation(c))
            /\ Done(c, "wrapped_op") => hist[c].outcome = Raise(Cancellation(c))

\* The call was cancelled during the delay after its second failure, while a
\* later invocation would have succeeded, and has ended.
C19_Witness ==
    \E c \in ClientIds :
        /\ Done(c, "wrapped_op")
        /\ Cancelled(c)
        /\ Attempts(c) = 2
        /\ hist[c].script = 2
        /\ task[c].max_retries = 3
        /\ hist[c].outcome.exc.type = "CancelledError"

\* ------------------------------------------------------- concurrent adds
\* The clients that are Connected.
ConnectedIds == {c \in ManagedIds : Connected(c)}

\* C21: when two tasks have called add_server with the same name, the second
\* one starting while the first was suspended in its connect, and both calls
\* have ended, at most one client is Connected and every Connected client is
\* the one the registry holds under that name.
C21_OneConnectedClientPerName ==
    \A t \in Tasks, u \in Tasks :
        (/\ t # u
         /\ mgr.adds[t].pc = "done"
         /\ mgr.adds[u].pc = "done"
         /\ mgr.adds[t].name = mgr.adds[u].name
         /\ mgr.adds[u].overlapped) =>
            /\ Cardinality(ConnectedIds) <= 1
            /\ \A c \in ConnectedIds :
                  /\ Registered(mgr.adds[t].name)
                  /\ ClientOf(mgr.adds[t].name) = c

====
